---- MODULE Spec2Model ----
(***************************************************************************)
(* Parameter-sweep experiment 4 of recourse-plan-diverse-interpolation:   *)
(* run_expt_4 (the scheduler), run (one sweep job), plot_4 / plot_4_1     *)
(* (the report phase), as found in src/expt/expt_4.py, src/expt/common.py  *)
(* and src/expt/expt_config.py.                                            *)
(*                                                                         *)
(* Reals are scaled to integers: hyperparameter values are in hundredths   *)
(* (theta 0.99 is 99), means are kept as exact fractions [n, d].           *)
(***************************************************************************)
EXTENDS Integers, Sequences, FiniteSets, TLC

VARIABLES
    args,            \* the arguments of run_expt_4 (datasets, classifiers, methods, ...)
    params_to_vary,  \* ec.e4.params_to_vary: the grid of each swept hyperparameter
    ec,              \* ec.e4 frpd_params / dice_params as held by each process (with n_jobs=1
                     \* what a job writes stays for the next job)
    rng,             \* the process-wide random generators (np.random, torch) of each process
    cache,           \* wdir: the pickles that exist, by (cname, dname, mname)
    pc,              \* where run_expt_4 is
    jobs_args,       \* the list handed to joblib.Parallel
    job,             \* one record per entry of jobs_args: the state of its run(...)
    plot_at,         \* position of the report loops of run_expt_4
    joint_feasible,  \* joint_feasible of the last plot_4 / plot_4_1 call
    figs,            \* the figures saved so far
    raised,          \* the exception that left run_expt_4, or None
    first            \* the previous complete run of the job's key (two-run harness)

vars == <<args, params_to_vary, ec, rng, cache, pc, jobs_args, job, plot_at,
          joint_feasible, figs, raised, first>>

None == "None"
\* None where the other values are integers (start_index, num_ins)
NoneInt == -1

(***************************************************************************)
(* Tables and configuration                                                *)
(***************************************************************************)

\* expt_4.py param_to_vary
param_to_vary == [wachter |-> "none", dice |-> "diversity_weight", frpd_quad |-> "theta"]

\* common.py clf_map: the classifier ids it has
clf_map == {"net0", "mlp", "rf"}

\* common.py method_map: the strategy ids it has
method_map == {"lime_ar", "mpm_ar", "clime_ar", "limels_ar", "quad_rmpm_ar", "bw_rmpm_ar",
               "fr_rmpm_ar", "mace", "wachter", "lime_proj", "mpm_proj", "quad_rmpm_proj",
               "bw_rmpm_proj", "fr_rmpm_proj", "lime_roar", "clime_roar", "limels_roar",
               "mpm_roar", "quad_rmpm_roar", "bw_rmpm_roar", "fr_rmpm_roar", "face",
               "frpd_quad", "dice"}

\* expt_config.py Expt4.all_clfs, Expt4.all_datasets
all_clfs == <<"net0">>
all_datasets == <<"synthesis">>

\* expt_config.py Expt4.frpd_params['theta'] (0.99), Expt4.dice_params['diversity_weight'] (1.0)
ThetaDefault == 99
DiversityWeightDefault == 100

\* Expt4(): the hyperparameters a process starts with
Expt4 == [theta |-> ThetaDefault, diversity_weight |-> DiversityWeightDefault]

(***************************************************************************)
(* Bounds of the model                                                     *)
(***************************************************************************)
MaxProc == 2        \* num_proc is 1..MaxProc
MaxJobs == 2        \* at most this many (cname, dname, mname) triples in a batch
NumRejected == 3    \* test instances the classifier rejects (y_pred == 0)
MaxIns == 2         \* ec.max_ins
MaxSeed == 1        \* seed is 0..MaxSeed

Procs == 1..MaxProc

(***************************************************************************)
(* Sequences                                                               *)
(***************************************************************************)
Min(a, b) == IF a < b THEN a ELSE b
Range(s) == {s[i] : i \in DOMAIN s}
Contains(s, x) == \E i \in DOMAIN s : s[i] = x

\* list.remove(x): drops the first occurrence
RECURSIVE Remove(_, _)
Remove(s, x) ==
    IF s = <<>> THEN <<>>
    ELSE IF Head(s) = x THEN Tail(s)
    ELSE <<Head(s)>> \o Remove(Tail(s), x)

\* s[a:b] of Python, for 0 <= a
PySlice(s, a, b) == SubSeq(s, a + 1, Min(b, Len(s)))

RECURSIVE Sum(_)
Sum(s) == IF s = <<>> THEN 0 ELSE Head(s) + Sum(Tail(s))


RECURSIVE Concat(_)
Concat(ss) == IF ss = <<>> THEN <<>> ELSE Head(ss) \o Concat(Tail(ss))

(***************************************************************************)
(* run_expt_4: the defaults and the enumeration of the jobs                *)
(***************************************************************************)

\* run_expt_4, "if datasets is None or len(datasets) == 0: ..." and the like
Datasets == IF args.datasets = <<>> THEN all_datasets ELSE args.datasets
Classifiers == IF args.classifiers = <<>> THEN all_clfs ELSE args.classifiers

\* cmethods of run_expt_4: a copy of methods, without 'wachter' for the random forest
CMethods(cname) ==
    IF cname = "rf" /\ Contains(args.methods, "wachter")
    THEN Remove(args.methods, "wachter")
    ELSE args.methods

\* The file f"{cname}_{dname}_{mname}.pickle" of wdir
Key(cname, dname, mname) == <<cname, dname, mname>>
KeyOf(t) == Key(t.cname, t.dname, t.mname)

\* os.path.exists(filepath)
Exists(k) == k \in DOMAIN cache

\* The triples in the order of the three nested loops of run_expt_4
Enumerated ==
    Concat([i \in 1..Len(Classifiers) |->
        Concat([d \in 1..Len(Datasets) |->
            [m \in 1..Len(CMethods(Classifiers[i])) |->
                [cname |-> Classifiers[i], dname |-> Datasets[d],
                 mname |-> CMethods(Classifiers[i])[m]]]])])

\* "if not os.path.exists(filepath) or rerun"
ScheduledMutantIgnoreRerun(t) == ~Exists(KeyOf(t))
Scheduled(t) == ~Exists(KeyOf(t)) \/ args.rerun

\* Locals of run that are not bound yet
NoRes == [ptv_name |-> None, ptv_list |-> <<>>, cost |-> <<>>, diversity |-> <<>>,
          feasible |-> <<>>]
NoConfig == [theta |-> 0, diversity_weight |-> 0]
NoRng == [np |-> 0, torch |-> 0]

\* One run(...) call that joblib has not started yet
NewJob(t) ==
    [cname |-> t.cname, dname |-> t.dname, mname |-> t.mname,
     st |-> "pending", w |-> 0, ptv |-> None, ptv_list |-> <<>>, vi |-> 0,
     uds |-> <<>>, rets |-> <<>>, res |-> NoRes, new_config |-> NoConfig,
     ec0 |-> NoConfig, rng0 |-> NoRng, calls |-> <<>>, error |-> None]

\* run_expt_4 up to the joblib.Parallel call: builds jobs_args, or skips to the
\* report loops when plot_only
Enumerate ==
    /\ pc = "start"
    /\ IF args.plot_only
       THEN /\ pc' = "plot"
            /\ UNCHANGED <<jobs_args, job>>
       ELSE /\ jobs_args' = SelectSeq(Enumerated, Scheduled)
            /\ job' = [j \in 1..Len(jobs_args') |-> NewJob(jobs_args'[j])]
            /\ pc' = "jobs"
    /\ UNCHANGED <<args, params_to_vary, ec, rng, cache, plot_at, joint_feasible,
                   figs, raised, first>>

(***************************************************************************)
(* run: one sweep job                                                      *)
(***************************************************************************)

\* np.arange(start, stop, step) on integers; "error" for step 0
ArangeLen(start, stop, step) ==
    IF step > 0
    THEN (IF stop > start THEN (stop - start + step - 1) \div step ELSE 0)
    ELSE (IF start > stop THEN (start - stop + (0 - step) - 1) \div (0 - step) ELSE 0)
Arange(start, stop, step) ==
    [k \in 1..ArangeLen(start, stop, step) |-> start + (k - 1) * step]

\* "ptv_list = np.arange(min_ptv, max_ptv+step_size, step_size)"
PtvList(g) == Arange(g.min, g.max + g.step, g.step)

\* uds_X[y_pred == 0]: the rejected test instances, by number
Rejected == [i \in 1..NumRejected |-> i]

\* The slice of run: the window [start_index, start_index + num_ins), or the
\* first ec.max_ins instances
Window(start_index, num_ins) ==
    IF start_index # NoneInt \/ num_ins # NoneInt
    THEN LET n == IF num_ins = NoneInt \/ num_ins = 0 THEN 1 ELSE num_ins
             s == IF start_index = NoneInt \/ start_index = 0 THEN 0 ELSE start_index
         IN PySlice(Rejected, s, s + n)
    ELSE PySlice(Rejected, 0, MaxIns)

\* A job that is inside run(...)
Running(j) == job[j].st \in {"setup", "instance", "persist"}
Failed(j) == job[j].st = "failed"

\* A worker process of the pool that runs no job
Idle(w) == \A i \in DOMAIN job : Running(i) => job[i].w # w

\* The ec.e4 a job is given: with n_jobs = 1 joblib calls run in the calling process,
\* on the object of jobs_args itself; a worker process of a pool is sent a pickled
\* copy of the arguments, and the object of the calling process is never written
JobConfig(w) == IF args.num_proc = 1 THEN ec[w] ELSE Expt4

\* joblib.Parallel hands the entries of jobs_args out in order, each to an idle
\* worker (the first of them), and hands out nothing more once a job has raised
Dispatch(j, w) ==
    /\ pc = "jobs"
    /\ j \in DOMAIN job
    /\ job[j].st = "pending"
    /\ \A i \in 1..(j - 1) : job[i].st # "pending"
    /\ \A i \in DOMAIN job : ~Failed(i)
    /\ w \in 1..args.num_proc
    /\ Idle(w)
    /\ \A v \in 1..(w - 1) : ~Idle(v)
    /\ job' = [job EXCEPT ![j].st = "setup", ![j].w = w]
    /\ ec' = [ec EXCEPT ![w] = JobConfig(w)]
    /\ UNCHANGED <<args, params_to_vary, rng, cache, pc, jobs_args, plot_at,
                   joint_feasible, figs, raised, first>>

\* "params['frpd_params'] = ec.frpd_params ... params['frpd_params']['theta'] = value":
\* the dictionaries are those of ec itself, so the assignment writes into ec
Override(e, ptv, value) ==
    IF ptv = "theta" THEN [e EXCEPT !.theta = value]
    ELSE IF ptv = "diversity_weight" THEN [e EXCEPT !.diversity_weight = value]
    ELSE e

\* "new_config = Expt4(ec.to_dict())": a clone of the base configuration
Clone(e) == e

\* "res['cost'].append(np.array(cost))" and the two lines after it
Collect(res, rets) ==
    [res EXCEPT
        !.cost = Append(@, [i \in 1..Len(rets) |-> rets[i].l1_cost]),
        !.diversity = Append(@, [i \in 1..Len(rets) |-> rets[i].diversity]),
        !.feasible = Append(@, [i \in 1..Len(rets) |-> rets[i].feasible])]

\* The top of the body of "for value in ptv_list", up to the loop over uds_X, in
\* the process whose base configuration is e: the job record and the configuration
\* after it
RECURSIVE LoopTop(_, _)
LoopTop(jr, e) ==
    IF jr.vi = Len(jr.ptv_list) THEN [jr |-> [jr EXCEPT !.st = "persist"], ec |-> e]
    ELSE LET value == jr.ptv_list[jr.vi + 1]
             uds == Window(args.start_index, args.num_ins)
             e1 == Override(e, jr.ptv, value)
             j1 == [jr EXCEPT !.new_config = Clone(e), !.uds = uds, !.rets = <<>>,
                              !.st = "instance"]
         IN IF uds = <<>>
            THEN LoopTop([j1 EXCEPT !.res = Collect(jr.res, <<>>), !.vi = jr.vi + 1], e1)
            ELSE [jr |-> j1, ec |-> e1]

\* The appends to res that end the body for one value, then the next loop top
AfterValue(jr, rets, e) ==
    LoopTop([jr EXCEPT !.res = Collect(jr.res, rets), !.rets = <<>>, !.vi = jr.vi + 1], e)

\* The error of the lookups of run before its loop, or None
SetupError(cname, dname, mname) ==
    IF cname \notin clf_map THEN "KeyError"
    ELSE IF mname \notin DOMAIN param_to_vary THEN "KeyError"
    ELSE IF mname \notin method_map THEN "KeyError"
    ELSE IF param_to_vary[mname] \notin DOMAIN params_to_vary THEN "KeyError"
    ELSE IF params_to_vary[param_to_vary[mname]].step = 0 THEN "ZeroDivisionError"
    ELSE None

\* run from its first line to its first strategy call (or to its end, when there
\* is none)
RunSetup(j) ==
    /\ pc = "jobs"
    /\ j \in DOMAIN job
    /\ job[j].st = "setup"
    /\ LET e == SetupError(job[j].cname, job[j].dname, job[j].mname)
           ptv == param_to_vary[job[j].mname]
       IN IF e # None
          THEN /\ job' = [job EXCEPT ![j].st = "failed", ![j].error = e,
                                     ![j].ec0 = ec[job[j].w], ![j].rng0 = rng[job[j].w]]
               /\ UNCHANGED ec
          ELSE LET l == PtvList(params_to_vary[ptv])
                   jr == [job[j] EXCEPT
                            !.ptv = ptv,
                            !.ptv_list = l,
                            !.ec0 = ec[job[j].w],
                            !.rng0 = rng[job[j].w],
                            !.res = [ptv_name |-> ptv, ptv_list |-> l, cost |-> <<>>,
                                     diversity |-> <<>>, feasible |-> <<>>]]
                   top == LoopTop(jr, ec[job[j].w])
               IN /\ job' = [job EXCEPT ![j] = top.jr]
                  /\ ec' = [ec EXCEPT ![job[j].w] = top.ec]
    /\ UNCHANGED <<args, params_to_vary, rng, cache, pc, jobs_args, plot_at,
                   joint_feasible, figs, raised, first>>


\* generate_recourse and the metrics of _run_single_instance_plans: what the strategy
\* returns is fixed by what it is given
GenerateRecourse(mname, x0, random_state, g, params) ==
    LET knob == IF mname = "frpd_quad" THEN params.frpd_params.theta
                ELSE IF mname = "dice" THEN params.dice_params.diversity_weight
                ELSE 0
        noise == (random_state + g.np + g.torch) % 2
    IN [l1_cost |-> (x0 + (knob \div 20) + noise) % 4,
        diversity |-> (x0 + (knob \div 20)) % 3,
        feasible |-> ((x0 + (knob \div 20) + noise) % 3) # 0]

\* What a strategy call leaves of the process-wide generators
Consume(g) == [np |-> (g.np + 1) % 4, torch |-> (g.torch + 1) % 4]

\* "torch.manual_seed(seed+2); np.random.seed(seed+1)"
ReseedMutantKeep(g, seed) == g
Reseed(g, seed) == [np |-> seed + 1, torch |-> seed + 2]

\* "random_state = check_random_state(seed)"
RandomState(seed) == seed

\* One _run_single_instance_plans call of the loop over uds_X; the last one of a
\* value is followed by the appends to res and the top of the next value
Instance(j) ==
    /\ pc = "jobs"
    /\ j \in DOMAIN job
    /\ job[j].st = "instance"
    /\ LET w == job[j].w
           x0 == job[j].uds[Len(job[j].rets) + 1]
           g == Reseed(rng[w], args.seed)
           params == [frpd_params |-> [theta |-> ec[w].theta],
                      dice_params |-> [diversity_weight |-> ec[w].diversity_weight],
                      config |-> job[j].new_config]
           call == [x0 |-> x0, random_state |-> RandomState(args.seed), np |-> g.np,
                    torch |-> g.torch, params |-> params]
           ret == GenerateRecourse(job[j].mname, x0, RandomState(args.seed), g, params)
           rets == Append(job[j].rets, ret)
           jr == [job[j] EXCEPT !.rets = rets, !.calls = Append(@, call)]
           last == Len(rets) = Len(job[j].uds)
           nxt == AfterValue(jr, rets, ec[w])
       IN \/ /\ rng' = [rng EXCEPT ![w] = Consume(g)]
             /\ job' = [job EXCEPT ![j] = IF last THEN nxt.jr ELSE jr]
             /\ ec' = [ec EXCEPT ![w] = IF last THEN nxt.ec ELSE @]
          \/ \* generate_recourse raises, or its report has no 'feasible'
             /\ rng' = [rng EXCEPT ![w] = g]
             /\ job' = [job EXCEPT ![j].st = "failed", ![j].error = "StrategyError",
                                   ![j].calls = Append(@, call)]
             /\ UNCHANGED ec
    /\ UNCHANGED <<args, params_to_vary, cache, pc, jobs_args, plot_at,
                   joint_feasible, figs, raised, first>>

\* helpers.pdump: the file of key k holds obj, whatever it held before
Pdump(obj, k) == [x \in DOMAIN cache \cup {k} |-> IF x = k THEN obj ELSE cache[x]]

\* When run writes its pickle: after the loop over ptv_list
PersistMutantEachValue(jr) == jr.st \in {"instance", "persist"} /\ jr.vi > 0
PersistAt(jr) == jr.st = "persist"

\* "helpers.pdump(res, f'{cname}_{dname}_{mname}.pickle', wdir)": one write of the
\* whole of res
Persist(j) ==
    /\ pc = "jobs"
    /\ j \in DOMAIN job
    /\ PersistAt(job[j])
    /\ cache' = Pdump(job[j].res, KeyOf(job[j]))
    /\ job' = [job EXCEPT ![j].st = IF job[j].st = "persist" THEN "done" ELSE @]
    /\ UNCHANGED <<args, params_to_vary, ec, rng, pc, jobs_args, plot_at,
                   joint_feasible, figs, raised, first>>

\* joblib.Parallel returns once every job has returned
JobsDone ==
    /\ pc = "jobs"
    /\ \A j \in DOMAIN job : job[j].st = "done"
    /\ pc' = "plot"
    /\ UNCHANGED <<args, params_to_vary, ec, rng, cache, jobs_args, job, plot_at,
                   joint_feasible, figs, raised, first>>

\* joblib.Parallel re-raises the exception of a job: the jobs still running are
\* terminated with their workers, the pending ones are never started
JobsRaise ==
    /\ pc = "jobs"
    /\ \E j \in DOMAIN job : Failed(j)
    /\ pc' = "raised"
    /\ raised' = job[CHOOSE j \in DOMAIN job : Failed(j)].error
    /\ job' = [j \in DOMAIN job |->
                 IF Running(j) \/ job[j].st = "pending"
                 THEN [job[j] EXCEPT !.st = "cancelled"] ELSE job[j]]
    /\ UNCHANGED <<args, params_to_vary, ec, rng, cache, jobs_args, plot_at,
                   joint_feasible, figs, first>>


(***************************************************************************)
(* The report phase: plot_4, plot_4_1                                      *)
(***************************************************************************)

\* A value of the local joint_feasible, or the exception that ended the loops
JNone == [tag |-> "none", v |-> <<>>, err |-> None]
JVec(v) == [tag |-> "vec", v |-> v, err |-> None]
JErr(e) == [tag |-> "error", v |-> <<>>, err |-> e]

\* np.logical_and on two 1-d arrays: element-wise, a length-1 array is broadcast,
\* any other pair of different lengths is a ValueError
LogicalAndMutantOr(a, b) ==
    IF Len(a) = Len(b) THEN JVec([i \in 1..Len(a) |-> a[i] \/ b[i]])
    ELSE JErr("ValueError")
LogicalAnd(a, b) ==
    IF Len(a) = Len(b) THEN JVec([i \in 1..Len(a) |-> a[i] /\ b[i]])
    ELSE IF Len(a) = 1 THEN JVec([i \in 1..Len(b) |-> a[1] /\ b[i]])
    ELSE IF Len(b) = 1 THEN JVec([i \in 1..Len(a) |-> a[i] /\ b[1]])
    ELSE JErr("ValueError")

\* "for feasible in res['feasible']: if joint_feasible is None: ...; joint_feasible =
\* np.logical_and(joint_feasible, feasible)"
RECURSIVE JoinVectors(_, _)
JoinVectors(joint, vecs) ==
    IF joint.tag = "error" \/ vecs = <<>> THEN joint
    ELSE LET feasible == Head(vecs)
             j0 == IF joint.tag = "none" THEN feasible ELSE joint.v
         IN JoinVectors(LogicalAnd(j0, feasible), Tail(vecs))

\* helpers.pload of a file that is not there
PloadError == "FileNotFoundError"

\* The first loop of plot_4 (and of plot_4_1 for one dataset): joint_feasible
\* over the methods, in the order of the list
RECURSIVE JoinFeasibility(_, _, _, _)
JoinFeasibility(joint, cname, dname, ms) ==
    IF joint.tag = "error" \/ ms = <<>> THEN joint
    ELSE IF ~Exists(Key(cname, dname, Head(ms))) THEN JErr(PloadError)
    ELSE JoinFeasibility(JoinVectors(joint, cache[Key(cname, dname, Head(ms))].feasible),
                         cname, dname, Tail(ms))

\* np.mean of a 1-d array, as the fraction n/d (0/0 for the empty array)
Mean(a) == [n |-> Sum(a), d |-> Len(a)]
FracLess(a, b) == a.d > 0 /\ b.d > 0 /\ a.n * b.d < b.n * a.d
FracEq(a, b) == a.d > 0 /\ b.d > 0 /\ a.n * b.d = b.n * a.d

\* "for i in range(len(res['ptv_list'])): data[mname]['cost'].append(np.mean(res['cost'][i]))"
\* and the line after it: the sweep curve of one strategy, one mean per grid value
Data(res) ==
    [cost |-> [i \in 1..Len(res.ptv_list) |-> Mean(res.cost[i])],
     diversity |-> [i \in 1..Len(res.ptv_list) |-> Mean(res.diversity[i])]]

\* The second loop of plot_4 raises when an array is missing
ReduceError(res) ==
    IF Len(res.cost) < Len(res.ptv_list) \/ Len(res.diversity) < Len(res.ptv_list)
    THEN "IndexError" ELSE None


\* find_pareto: the points in ascending x, of equal x the larger y first; a mean
\* of nothing (nan) sorts last
IsNaN(a) == a.d = 0
SortsBefore(a, b) == (~IsNaN(a) /\ IsNaN(b)) \/ FracLess(a, b)
SortsWith(a, b) == (IsNaN(a) /\ IsNaN(b)) \/ FracEq(a, b)
LargerFirst(a, b) == (~IsNaN(a) /\ IsNaN(b)) \/ FracLess(b, a)
ParetoBefore(xs, ys, i, j) ==
    \/ SortsBefore(xs[i], xs[j])
    \/ SortsWith(xs[i], xs[j]) /\ LargerFirst(ys[i], ys[j])
    \/ SortsWith(xs[i], xs[j]) /\ SortsWith(ys[i], ys[j]) /\ i < j

RECURSIVE ParetoSort(_, _, _)
ParetoSort(xs, ys, S) ==
    IF S = {} THEN <<>>
    ELSE LET m == CHOOSE i \in S : \A j \in S \ {i} : ParetoBefore(xs, ys, i, j)
         IN <<m>> \o ParetoSort(xs, ys, S \ {m})

\* find_pareto: the sweep from the left keeps a point whose y is above every y before it
RECURSIVE ParetoSweep(_, _, _, _)
ParetoSweep(xs, ys, order, kept) ==
    IF order = <<>> THEN kept
    ELSE LET i == Head(order)
             better == kept = <<>> \/ FracLess(kept[Len(kept)].y, ys[i])
         IN ParetoSweep(xs, ys, Tail(order),
                        IF better THEN Append(kept, [x |-> xs[i], y |-> ys[i]]) ELSE kept)

\* utils.funcs.find_pareto(x, y): the frontier as points (x, y), ascending in x
FindPareto(xs, ys) == ParetoSweep(xs, ys, ParetoSort(xs, ys, DOMAIN xs), <<>>)

\* "X, y = find_pareto(data[mname][x_label], data[mname][y_label])" with x_label 'cost'
\* and y_label 'diversity', drawn with X on the cost axis
FrontMutantSwapped(data) == FindPareto(data.diversity, data.cost)
Front(data) == FindPareto(data.cost, data.diversity)

\* ax.scatter of plot_4_1 for 'wachter': every point of the curve
Scatter(data) == [i \in DOMAIN data.cost |-> [x |-> data.cost[i], y |-> data.diversity[i]]]

\* The exception of the two loading loops of plot_4 for one dataset, or None
RECURSIVE FirstReduceError(_, _, _)
FirstReduceError(cname, dname, ms) ==
    IF ms = <<>> THEN None
    ELSE LET e == ReduceError(cache[Key(cname, dname, Head(ms))])
         IN IF e # None THEN e ELSE FirstReduceError(cname, dname, Tail(ms))

LoadError(cname, dname, ms) ==
    LET joint == JoinFeasibility(JNone, cname, dname, ms)
    IN IF joint.tag = "error" THEN joint.err ELSE FirstReduceError(cname, dname, ms)

\* The same over the datasets of plot_4_1, in order
RECURSIVE LoadErrorAll(_, _, _)
LoadErrorAll(cname, ds, ms) ==
    IF ds = <<>> THEN None
    ELSE LET e == LoadError(cname, Head(ds), ms)
         IN IF e # None THEN e ELSE LoadErrorAll(cname, Tail(ds), ms)

\* The curves a figure shows, by (dname, mname)
Curves(cname, ds, ms, raw) ==
    [k \in {<<d, m>> : d \in Range(ds), m \in Range(ms)} |->
        LET data == Data(cache[Key(cname, k[1], k[2])])
        IN IF k[2] \in raw THEN Scatter(data) ELSE Front(data)]

\* One plot_4(ec.e4, wdir, cname, dname, cmethods) call of run_expt_4
Plot4 ==
    /\ pc = "plot"
    /\ plot_at.c <= Len(Classifiers)
    /\ plot_at.d <= Len(Datasets)
    /\ LET cname == Classifiers[plot_at.c]
           dname == Datasets[plot_at.d]
           ms == CMethods(cname)
           e == LoadError(cname, dname, ms)
       IN /\ joint_feasible' = JoinFeasibility(JNone, cname, dname, ms)
          /\ IF e # None
             THEN /\ pc' = "raised"
                  /\ raised' = e
                  /\ UNCHANGED <<figs, plot_at>>
             ELSE /\ figs' = figs \cup {[kind |-> "plot_4", cname |-> cname,
                                         dnames |-> <<dname>>,
                                         curves |-> Curves(cname, <<dname>>, ms, {})]}
                  /\ plot_at' = [plot_at EXCEPT !.d = @ + 1]
                  /\ UNCHANGED <<pc, raised>>
    /\ UNCHANGED <<args, params_to_vary, ec, rng, cache, jobs_args, job, first>>

\* The joint_feasible local of plot_4_1 after its loading loops over ds
RECURSIVE LastJoint(_, _, _, _)
LastJoint(joint, cname, ds, ms) ==
    IF ds = <<>> \/ joint.tag = "error" THEN joint
    ELSE LET e == FirstReduceError(cname, Head(ds), ms)
             j == JoinFeasibility(JNone, cname, Head(ds), ms)
         IN IF j.tag # "error" /\ e # None THEN j
            ELSE LastJoint(j, cname, Tail(ds), ms)

\* The plot_4_1(ec.e4, wdir, cname, datasets, cmethods) call of run_expt_4
Plot41 ==
    /\ pc = "plot"
    /\ plot_at.c <= Len(Classifiers)
    /\ plot_at.d = Len(Datasets) + 1
    /\ LET cname == Classifiers[plot_at.c]
           ms == CMethods(cname)
           e == LoadErrorAll(cname, Datasets, ms)
       IN /\ joint_feasible' = LastJoint(JNone, cname, Datasets, ms)
          /\ IF e # None
             THEN /\ pc' = "raised"
                  /\ raised' = e
                  /\ UNCHANGED <<figs, plot_at>>
             ELSE /\ figs' = figs \cup {[kind |-> "plot_4_1", cname |-> cname,
                                         dnames |-> Datasets,
                                         curves |-> Curves(cname, Datasets, ms, {"wachter"})]}
                  /\ plot_at' = [c |-> plot_at.c + 1, d |-> 1]
                  /\ UNCHANGED <<pc, raised>>
    /\ UNCHANGED <<args, params_to_vary, ec, rng, cache, jobs_args, job, first>>

\* "logger.info("Done ept 4.")": run_expt_4 returns
ReportDone ==
    /\ pc = "plot"
    /\ plot_at.c > Len(Classifiers)
    /\ pc' = "done"
    /\ UNCHANGED <<args, params_to_vary, ec, rng, cache, jobs_args, job, plot_at,
                   joint_feasible, figs, raised, first>>


(***************************************************************************)
(* The batch: one run_expt_4 call                                          *)
(***************************************************************************)

\* The argument lists and grids the model draws from
ClassifierLists == {<<>>, <<"rf">>, <<"net0", "rf">>}
DatasetLists == {<<>>, <<"synthesis", "german">>}
MethodLists == {<<"dice">>, <<"frpd_quad", "dice">>, <<"wachter", "dice">>}
Windows == {[start_index |-> NoneInt, num_ins |-> NoneInt],
            [start_index |-> 1, num_ins |-> NoneInt]}
Grids == {[min |-> 20, max |-> 60, step |-> 40],
          [min |-> 20, max |-> 30, step |-> 40],
          [min |-> 60, max |-> 20, step |-> 40],
          [min |-> 20, max |-> 60, step |-> 0]}

\* A complete pickle left by an earlier invocation
PriorEntry(k) ==
    [ptv_name |-> param_to_vary[k[3]], ptv_list |-> <<50>>, cost |-> << <<3, 3>> >>,
     diversity |-> << <<1, 2>> >>, feasible |-> << <<TRUE, FALSE>> >>]

InitArgs ==
    /\ args \in [classifiers : ClassifierLists, datasets : DatasetLists,
                 methods : MethodLists, rerun : BOOLEAN, plot_only : BOOLEAN,
                 seed : {0}, num_proc : 1..MaxProc,
                 start_index : {NoneInt},
                 num_ins : {NoneInt}]
    /\ args.plot_only => args.rerun
    /\ Len(Enumerated) <= MaxJobs

InitRest ==
    /\ pc = "start"
    /\ jobs_args = <<>>
    /\ job = <<>>
    /\ plot_at = [c |-> 1, d |-> 1]
    /\ joint_feasible = JNone
    /\ figs = {}
    /\ raised = None
    /\ first = <<>>

\* The pickles found in wdir: none, one, or one for every key
PriorSets(K) == {P \in SUBSET K : Cardinality(P) <= 1 \/ P = K}

Init ==
    /\ InitArgs
    /\ \E g \in Grids : params_to_vary = [theta |-> g, diversity_weight |-> g]
    /\ \E P \in PriorSets({KeyOf(Enumerated[i]) : i \in DOMAIN Enumerated}) :
          cache = [k \in P |-> PriorEntry(k)]
    /\ ec = [w \in Procs |-> Expt4]
    /\ rng = [w \in Procs |-> [np |-> 0, torch |-> 0]]
    /\ InitRest

Next ==
    \/ Enumerate
    \/ \E j \in 1..MaxJobs, w \in Procs : Dispatch(j, w)
    \/ \E j \in 1..MaxJobs : RunSetup(j)
    \/ \E j \in 1..MaxJobs : Instance(j)
    \/ \E j \in 1..MaxJobs : Persist(j)
    \/ JobsDone
    \/ JobsRaise
    \/ Plot4
    \/ Plot41
    \/ ReportDone

Spec == Init /\ [][Next]_vars


(***************************************************************************)
(* run called twice: the same job in two processes that start from the     *)
(* same base configuration                                                 *)
(***************************************************************************)

StartConfigs == {Expt4, [theta |-> 20, diversity_weight |-> 60]}
RngStates == [np : 0..1, torch : 0..1]

InitTwice ==
    /\ args \in [classifiers : {<<"net0">>}, datasets : {<<"synthesis">>},
                 methods : {<<"dice">>, <<"frpd_quad">>}, rerun : {TRUE},
                 plot_only : {FALSE}, seed : 0..MaxSeed, num_proc : {1},
                 start_index : {w.start_index : w \in Windows},
                 num_ins : {w.num_ins : w \in Windows}]
    /\ \E g \in Grids : params_to_vary = [theta |-> g, diversity_weight |-> g]
    /\ cache = <<>>
    /\ \E e \in StartConfigs : ec = [w \in Procs |-> e]
    /\ rng \in [Procs -> RngStates]
    /\ InitRest

\* run(...) is called a second time with the same arguments, in a process whose base
\* configuration is as the first call found it; whatever the first call passed to
\* the strategy and wrote is kept for comparison
RunAgain(w) ==
    /\ pc = "jobs"
    /\ first = <<>>
    /\ Len(job) = 1
    /\ job[1].st = "done"
    /\ ec[w] = job[1].ec0
    /\ first' = <<job[1]>>
    /\ job' = [job EXCEPT ![1] = [NewJob(jobs_args[1]) EXCEPT !.st = "setup", !.w = w]]
    /\ UNCHANGED <<args, params_to_vary, ec, rng, cache, pc, jobs_args, plot_at,
                   joint_feasible, figs, raised>>

NextTwice ==
    \/ Enumerate
    \/ \E w \in Procs : Dispatch(1, w)
    \/ RunSetup(1)
    \/ Instance(1)
    \/ Persist(1)
    \/ \E w \in Procs : RunAgain(w)

SpecTwice == InitTwice /\ [][NextTwice]_vars

(***************************************************************************)
(* The report phase alone (plot_only), over the pickles of two strategies  *)
(***************************************************************************)
MaxLen == 3      \* instances per pickle: 0..MaxLen
MaxPoints == 4   \* grid values of the pickle whose curve is drawn

BoolVecs(n) == [1..n -> BOOLEAN]
Ones(n) == [i \in 1..n |-> 1]

\* A complete pickle of strategy m: L grid values, n instances each
FeasEntry(m, n, fs) ==
    [ptv_name |-> param_to_vary[m],
     ptv_list |-> [i \in 1..Len(fs) |-> 20 * i],
     cost |-> [i \in 1..Len(fs) |-> Ones(n)],
     diversity |-> [i \in 1..Len(fs) |-> Ones(n)],
     feasible |-> fs]
FeasEntries(m, L) ==
    UNION {{FeasEntry(m, n, fs) : fs \in [1..L -> BoolVecs(n)]} : n \in 0..MaxLen}

\* A complete pickle of strategy m whose mean (cost, diversity) per grid value are
\* the points pts, from one instance or from two
Points == [c : 1..3, v : {2, 5, 8}]
CurveEntry(m, pts, two) ==
    [ptv_name |-> param_to_vary[m],
     ptv_list |-> [i \in 1..Len(pts) |-> 20 * i],
     cost |-> [i \in 1..Len(pts) |->
                 IF two THEN <<pts[i].c - 1, pts[i].c + 1>> ELSE <<pts[i].c>>],
     diversity |-> [i \in 1..Len(pts) |->
                 IF two THEN <<pts[i].v + 1, pts[i].v - 1>> ELSE <<pts[i].v>>],
     feasible |-> [i \in 1..Len(pts) |-> IF two THEN <<TRUE, TRUE>> ELSE <<TRUE>>]]
CurveEntries(m) ==
    {CurveEntry(m, pts, two) : pts \in [1..MaxPoints -> Points], two \in BOOLEAN}

ReportArgs(ms) ==
    [classifiers |-> <<"net0">>, datasets |-> <<>>, methods |-> ms, rerun |-> TRUE,
     plot_only |-> TRUE, seed |-> 0, num_proc |-> 1, start_index |-> NoneInt,
     num_ins |-> NoneInt]

InitReport ==
    /\ \/ /\ args \in {ReportArgs(<<"dice", "frpd_quad">>), ReportArgs(<<"frpd_quad", "dice">>)}
          /\ \E a \in FeasEntries("dice", 2), b \in FeasEntries("frpd_quad", 1) :
                cache = (Key("net0", "synthesis", "dice") :> a)
                        @@ (Key("net0", "synthesis", "frpd_quad") :> b)
       \/ /\ args = ReportArgs(<<"dice", "frpd_quad">>)
          /\ \E a \in CurveEntries("dice") :
                cache = (Key("net0", "synthesis", "dice") :> a)
                        @@ (Key("net0", "synthesis", "frpd_quad") :>
                               FeasEntry("frpd_quad", Len(a.feasible[1]),
                                         <<a.feasible[1]>>))
    /\ params_to_vary = [theta |-> [min |-> 20, max |-> 60, step |-> 40],
                         diversity_weight |-> [min |-> 20, max |-> 60, step |-> 40]]
    /\ ec = [w \in Procs |-> Expt4]
    /\ rng = [w \in Procs |-> [np |-> 0, torch |-> 0]]
    /\ InitRest

NextReport ==
    \/ Enumerate
    \/ Plot4
    \/ Plot41
    \/ ReportDone

SpecReport == InitReport /\ [][NextReport]_vars


(***************************************************************************)
(* Properties                                                              *)
(***************************************************************************)

EnumeratedKeys == {KeyOf(Enumerated[i]) : i \in DOMAIN Enumerated}
Invocations(k) == Cardinality({j \in DOMAIN jobs_args : KeyOf(jobs_args[j]) = k})
\* jobs_args is built and joblib has started none of the jobs: the pickles are
\* still those the enumeration found
NothingStarted == pc = "jobs" /\ \A j \in DOMAIN job : job[j].st = "pending"

\* C1: for every key the loops of run_expt_4 enumerate (plot_only false): with an
\* existing pickle and rerun false no run(...) is scheduled for the key; with
\* rerun true exactly one is, whether or not the pickle exists.
C1_RerunPolicy ==
    NothingStarted =>
        \A k \in EnumeratedKeys :
            /\ (Exists(k) /\ ~args.rerun) => Invocations(k) = 0
            /\ args.rerun => Invocations(k) = 1
            /\ (~Exists(k) /\ ~args.rerun) => Invocations(k) = 1

C1_Witness ==
    /\ NothingStarted
    /\ ~args.rerun
    /\ \E k \in EnumeratedKeys : Exists(k) /\ Invocations(k) = 0
    /\ \E k \in EnumeratedKeys : ~Exists(k) /\ Invocations(k) = 1

\* C2 as claimed: when a scheduled job has failed and the batch is over, run_expt_4
\* has not raised, and every other scheduled job has run to its end and written
\* its pickle.
C2_AsClaimed ==
    (pc # "jobs" /\ \E j \in DOMAIN job : Failed(j)) =>
        /\ pc # "raised"
        /\ \A i \in DOMAIN job :
              ~Failed(i) => /\ job[i].st = "done"
                            /\ Exists(KeyOf(job[i]))
                            /\ cache[KeyOf(job[i])] = job[i].res

\* One array of cost, diversity and feasible for every value of the grid
Complete(e) ==
    /\ Len(e.cost) = Len(e.ptv_list)
    /\ Len(e.diversity) = Len(e.ptv_list)
    /\ Len(e.feasible) = Len(e.ptv_list)

\* C3: in every state of a job, one that an exception ended included, the pickle
\* of its key is absent, or the untouched earlier pickle, or (once the job is done)
\* the whole of res with one array per value of the grid; every pickle is complete.
C3_AbsentOrComplete ==
    /\ \A k \in DOMAIN cache : Complete(cache[k])
    /\ \A j \in DOMAIN job :
          LET k == KeyOf(job[j])
          IN IF job[j].st = "done"
             THEN /\ Exists(k)
                  /\ cache[k] = job[j].res
                  /\ cache[k].ptv_list = PtvList(params_to_vary[job[j].ptv])
             ELSE Exists(k) => cache[k] = PriorEntry(k)

C3_Witness ==
    \E j \in DOMAIN job :
        /\ job[j].st = "failed"
        /\ job[j].vi >= 1
        /\ Len(job[j].res.cost) < Len(job[j].ptv_list)
        /\ ~Exists(KeyOf(job[j]))

RECURSIVE LoadedVectors(_, _, _)
LoadedVectors(cname, dname, ms) ==
    IF ms = <<>> THEN <<>>
    ELSE (IF Exists(Key(cname, dname, Head(ms)))
          THEN cache[Key(cname, dname, Head(ms))].feasible ELSE <<>>)
         \o LoadedVectors(cname, dname, Tail(ms))

Reverse(q) == [i \in 1..Len(q) |-> q[Len(q) + 1 - i]]

\* plot_4 has been called for the first (classifier, dataset) pair, and no other
Plot4Ran == (pc = "plot" /\ plot_at = [c |-> 1, d |-> 2]) \/ (pc = "raised" /\ plot_at = [c |-> 1, d |-> 1])
FirstVectors == LoadedVectors(Classifiers[1], Datasets[1], CMethods(Classifiers[1]))

\* C5: for feasible arrays of one length, joint_feasible of plot_4 is their
\* element-wise AND: the same for the reversed order of the strategies, all false
\* when one array is all false, and [true, false, false] for [true, true, false]
\* and [true, false, false].
C5_JointIsAnd ==
    LET vs == FirstVectors
        n == Len(vs[1])
    IN (Plot4Ran /\ vs # <<>> /\ \A i \in DOMAIN vs : Len(vs[i]) = n) =>
          /\ joint_feasible = JVec([x \in 1..n |-> \A i \in DOMAIN vs : vs[i][x]])
          /\ JoinFeasibility(JNone, Classifiers[1], Datasets[1],
                             Reverse(CMethods(Classifiers[1]))) = joint_feasible
          /\ (\E i \in DOMAIN vs : \A x \in 1..n : ~vs[i][x])
                => \A x \in 1..n : ~joint_feasible.v[x]
          /\ (Range(vs) = {<<TRUE, TRUE, FALSE>>, <<TRUE, FALSE, FALSE>>})
                => joint_feasible.v = <<TRUE, FALSE, FALSE>>

C5_Witness ==
    /\ Plot4Ran
    /\ Range(FirstVectors) = {<<TRUE, TRUE, FALSE>>, <<TRUE, FALSE, FALSE>>}
    /\ joint_feasible = JVec(<<TRUE, FALSE, FALSE>>)

\* C6 as claimed: whenever two of the feasible arrays joined have different
\* lengths, the join ends in an error.
C6_AsClaimed ==
    LET vs == FirstVectors
    IN (Plot4Ran /\ \E i, k \in DOMAIN vs : Len(vs[i]) # Len(vs[k])) =>
          joint_feasible.tag = "error"

\* A grid with max < min or a step that is not positive
Malformed(g) == g.max < g.min \/ g.step <= 0
HasConfigError ==
    \E i \in DOMAIN Enumerated :
        LET t == Enumerated[i]
        IN \/ SetupError(t.cname, t.dname, t.mname) # None
           \/ Malformed(params_to_vary[param_to_vary[t.mname]])

\* C7 as claimed: in a batch with a configuration error no run(...) starts and no
\* pickle is written.
C7_AsClaimed ==
    (pc # "start" /\ ~args.plot_only /\ HasConfigError) =>
        \A j \in DOMAIN job : job[j].st = "pending"

\* C8 as claimed: when the report loops have ended, on a missing pickle or not,
\* every strategy whose pickle exists has its curve in the plot_4 figure of its
\* (classifier, dataset) pair.
C8_AsClaimed ==
    (pc = "done" \/ (pc = "raised" /\ raised = PloadError)) =>
        \A i \in DOMAIN Enumerated :
            LET t == Enumerated[i]
            IN Exists(KeyOf(t)) =>
                  \E f \in figs : /\ f.kind = "plot_4"
                                  /\ f.cname = t.cname
                                  /\ f.dnames = <<t.dname>>
                                  /\ <<t.dname, t.mname>> \in DOMAIN f.curves

\* Cost is minimized, diversity maximized
Dominates(p, q) ==
    /\ ~FracLess(q.x, p.x)
    /\ ~FracLess(p.y, q.y)
    /\ FracLess(p.x, q.x) \/ FracLess(q.y, p.y)
SamePoint(p, q) == FracEq(p.x, q.x) /\ FracEq(p.y, q.y)
Pt(c, v) == [x |-> [n |-> c, d |-> 1], y |-> [n |-> v, d |-> 1]]

\* The sweep curve behind curve k of figure f
CurvePoints(f, k) == Range(Scatter(Data(cache[Key(f.cname, k[1], k[2])])))
Drawn(f, k) == ~(f.kind = "plot_4_1" /\ k[2] = "wachter")

\* C9: the frontier drawn for a strategy's curve of (mean cost, mean diversity),
\* cost minimized and diversity maximized, is made of points of the curve, no
\* one of them dominating another, and every point of the curve left out is
\* dominated by one of them; {(1,5),(2,5),(2,8),(3,2)} gives {(1,5),(2,8)}.
C9_ParetoFront ==
    \A f \in figs : \A k \in DOMAIN f.curves :
        LET P == CurvePoints(f, k)
            F == Range(f.curves[k])
        IN (Drawn(f, k) /\ \A p \in P : ~IsNaN(p.x) /\ ~IsNaN(p.y)) =>
              /\ \A p \in F : \E q \in P : SamePoint(p, q)
              /\ \A p, q \in F : ~Dominates(p, q)
              /\ \A p \in P : (\A q \in F : ~SamePoint(p, q))
                                 => \E q \in F : Dominates(q, p)
              /\ P = {Pt(1, 5), Pt(2, 5), Pt(2, 8), Pt(3, 2)}
                    => f.curves[k] = <<Pt(1, 5), Pt(2, 8)>>

C9_Witness ==
    \E f \in figs : \E k \in DOMAIN f.curves :
        /\ CurvePoints(f, k) = {Pt(1, 5), Pt(2, 5), Pt(2, 8), Pt(3, 2)}
        /\ f.curves[k] = <<Pt(1, 5), Pt(2, 8)>>

\* C10 as claimed: while a job runs and when it has returned, the base configuration
\* of its process holds the values it held when run was entered.
C10_AsClaimed ==
    \A j \in DOMAIN job :
        job[j].st \in {"instance", "persist"} => ec[job[j].w] = job[j].ec0

\* C11 as claimed: for a grid with step > 0 and min <= max, the values run evaluates
\* are min, min + step, ... in strictly ascending order, none of them above max,
\* and the pickle of a finished job has one array per value, in that order.
C11_AsClaimed ==
    \A j \in DOMAIN job :
        (job[j].ptv \in DOMAIN params_to_vary) =>
            LET g == params_to_vary[job[j].ptv]
                l == job[j].ptv_list
            IN (g.step > 0 /\ g.min <= g.max) =>
                  /\ l # <<>> /\ l[1] = g.min
                  /\ \A i \in 1..(Len(l) - 1) : l[i + 1] = l[i] + g.step
                  /\ \A i \in DOMAIN l : g.min <= l[i] /\ l[i] <= g.max
                  /\ \A i \in DOMAIN job[j].calls :
                        LET v == IF job[j].ptv = "theta"
                                 THEN job[j].calls[i].params.frpd_params.theta
                                 ELSE job[j].calls[i].params.dice_params.diversity_weight
                        IN g.min <= v /\ v <= g.max
                  /\ job[j].st = "done" =>
                        /\ cache[KeyOf(job[j])].ptv_list = l
                        /\ Len(cache[KeyOf(job[j])].cost) = Len(l)

\* C12 as claimed: the jobs of a batch share no mutable state and write different
\* keys: every job finds the base configuration as run_expt_4 was given it, whatever
\* jobs ran before it, no two scheduled jobs have the same key, and when the batch
\* is over the pickle of every job is what that job collected.
C12_AsClaimed ==
    /\ \A j \in DOMAIN job :
          job[j].st \notin {"pending", "cancelled", "setup"} => job[j].ec0 = Expt4
    /\ \A i, j \in DOMAIN job : KeyOf(job[i]) = KeyOf(job[j]) => i = j
    /\ pc \in {"plot", "done"} =>
          \A j \in DOMAIN job : cache[KeyOf(job[j])] = job[j].res

====
